---- MODULE Spec2Model ----
(***************************************************************************)
(* The transaction/element engine of gigobooks: Transaction.mergeElements, *)
(* Transaction.save/_save and Transaction.condenseElements, acting on one  *)
(* in-memory Transaction object and on the rows of the tables `txn` and    *)
(* `txnElement`.                                                           *)
(***************************************************************************)
EXTENDS Integers, Sequences, FiniteSets, TLC

\* ---------------------------------------------------------------------------
\* Values
\* ---------------------------------------------------------------------------

\* The value of an optional number that is not set (`id?: number`).
Undefined == -2

Debit == 1
Credit == -1

\* `parentId` of a candidate that is to be attached to the preceding non-child.
PendingChild == -1

\* Bounds of the model.
MaxAmount == 1
MaxList == 2
MaxElements == 4
MaxId == 4
MaxMerges == 2
MaxFailures == 1

Currencies == {"EUR", "USD"}

\* Accounts: the receivables account (Account.Reserved.AccountsReceivable),
\* and two others.
Receivable == 10
Cash == 11
Sales == 12
TaxCodes == {"", "T"}

\* JavaScript truthiness of an optional number.
Truthy(n) == n # Undefined /\ n # 0

\* The `_parent` reference of a TElement: none, the element object at a
\* position of the list at hand, or an element object that is no longer in the
\* list (nothing writes to such an object any more, so only its id is kept).
NoParent == [k |-> "none", v |-> 0]
ElRef(i) == [k |-> "el", v |-> i]
ObjRef(id) == [k |-> "obj", v |-> id]

\* Element.construct(item): a new Element object with the item's fields.
Construct(item) ==
    [id |-> item.id, transactionId |-> item.transactionId,
     amount |-> item.amount, drcr |-> item.drcr, currency |-> item.currency,
     parentId |-> item.parentId, taxCode |-> item.taxCode,
     accountId |-> item.accountId, settleId |-> item.settleId,
     _parent |-> NoParent]

\* ---------------------------------------------------------------------------
\* Balance aggregation
\* ---------------------------------------------------------------------------

RECURSIVE SumOver(_, _, _, _)
SumOver(elements, currency, sum, i) ==
    IF i > Len(elements) THEN 0
    ELSE (IF elements[i].currency = currency
          THEN (IF sum THEN elements[i].amount
                ELSE elements[i].drcr * elements[i].amount)
          ELSE 0)
         + SumOver(elements, currency, sum, i + 1)

\* The currency codes, in the order in which strings compare.
CurrencyCodes == <<"AUD", "EUR", "USD">>

\* The empty string, the currency of an element that saveFormData of the
\* Sale form zeroes, compares before every code.
CurrencyRank(c) ==
    IF c = "" THEN 0
    ELSE CHOOSE i \in 1..Len(CurrencyCodes) : CurrencyCodes[i] = c

\* Object.keys(balances): the currencies in the order in which the loop first
\* met them.
RECURSIVE BalanceKeys(_, _)
BalanceKeys(elements, i) ==
    IF i = 0 THEN <<>>
    ELSE LET keys == BalanceKeys(elements, i - 1)
         IN IF \E k \in 1..Len(keys) : keys[k] = elements[i].currency
            THEN keys
            ELSE Append(keys, elements[i].currency)

\* orderByField('currency') of util/util: negative, zero or positive as a's
\* currency is before, equal to or after b's.
orderByField(a, b) == CurrencyRank(a.currency) - CurrencyRank(b.currency)

\* Array.prototype.sort with that comparator: the entries in ascending order,
\* equal ones in the order they had.
RECURSIVE SortBalances(_)
SortBalances(s) ==
    IF Len(s) <= 1 THEN s
    ELSE LET sorted == SortBalances(SubSeq(s, 1, Len(s) - 1))
             x == s[Len(s)]
             n == Cardinality({k \in 1..Len(sorted) :
                                  orderByField(sorted[k], x) <= 0})
         IN SubSeq(sorted, 1, n) \o <<x>> \o SubSeq(sorted, n + 1, Len(sorted))

\* (_getBalances without the sort: the entries in the order of Object.keys)
_getBalancesUnsorted(elements, sum) ==
    LET keys == BalanceKeys(elements, Len(elements))
    IN  [k \in 1..Len(keys) |->
            [amount |-> SumOver(elements, keys[k], sum, 1),
             currency |-> keys[k]]]

\* Transaction._getBalances: the total of each currency that occurs, as an
\* array of {amount, currency} sorted by currency.
_getBalances(elements, sum) ==
    LET keys == BalanceKeys(elements, Len(elements))
    IN  SortBalances([k \in 1..Len(keys) |->
            [amount |-> SumOver(elements, keys[k], sum, 1),
             currency |-> keys[k]]])

\* (a balance check that passes everything)
isBalancedNoCheck(elements) == TRUE

isBalanced(elements) ==
    LET balances == _getBalances(elements, FALSE)
    IN \A k \in 1..Len(balances) : balances[k].amount = 0

\* ---------------------------------------------------------------------------
\* Transaction.mergeElements
\* ---------------------------------------------------------------------------

\* The object at position j has left the list: a reference to it now holds
\* the object itself.
Retarget(ref, j, oldId) ==
    IF ref.k = "el" /\ ref.v = j THEN ObjRef(oldId) ELSE ref

\* Index of the first element whose id equals `id`, or 0.
FindById(elements, id) ==
    IF \E j \in 1..Len(elements) : elements[j].id = id
    THEN CHOOSE j \in 1..Len(elements) :
            /\ elements[j].id = id
            /\ \A k \in 1..(j - 1) : elements[k].id # id
    ELSE 0

\* (a merge that appends every item, whether it carries an id or not)
MergeItemPush(S, item) ==
    IF S.error # "" THEN S
    ELSE
    LET e0 == Construct(item)
        child == e0.parentId = PendingChild
        e == IF child THEN [e0 EXCEPT !._parent = S.parent]
             ELSE [e0 EXCEPT !.parentId = 0]
    IN  IF e.id # Undefined /\ FindById(S.elements, e.id) = 0
        THEN [S EXCEPT !.error = "Id not found"]
        ELSE [elements |-> Append(S.elements, e),
              parent |-> IF child THEN S.parent
                         ELSE ElRef(Len(S.elements) + 1),
              error |-> ""]

\* (a merge that leaves an item with the id of a parent as it is: not a root,
\* and its parentId kept)
MergeItemKeepParent(S, item) ==
    IF S.error # "" THEN S
    ELSE
    LET e0 == Construct(item)
        child == e0.parentId = PendingChild
        root == ~child /\ e0.parentId <= 0
        e == IF child THEN [e0 EXCEPT !._parent = S.parent] ELSE e0
    IN  IF e.id = Undefined
        THEN [elements |-> Append(S.elements, e),
              parent |-> IF root THEN ElRef(Len(S.elements) + 1) ELSE S.parent,
              error |-> ""]
        ELSE LET j == FindById(S.elements, e.id)
             IN IF j = 0
                THEN [S EXCEPT !.error = "Id not found"]
                ELSE
                LET oldId == S.elements[j].id
                    fix(x) == [x EXCEPT !._parent = Retarget(x._parent, j, oldId)]
                IN [elements |->
                        [k \in 1..Len(S.elements) |->
                            IF k = j THEN fix(e) ELSE fix(S.elements[k])],
                    parent |-> IF root THEN ElRef(j)
                               ELSE Retarget(S.parent, j, oldId),
                    error |-> ""]

\* (a merge that appends an item whose id it does not find)
MergeItemLenient(S, item) ==
    IF S.error # "" THEN S
    ELSE
    LET e0 == Construct(item)
        child == e0.parentId = PendingChild
        e == IF child THEN [e0 EXCEPT !._parent = S.parent]
             ELSE [e0 EXCEPT !.parentId = 0]
        j == IF e.id = Undefined THEN 0 ELSE FindById(S.elements, e.id)
    IN  IF j = 0
        THEN [elements |-> Append(S.elements, e),
              parent |-> IF child THEN S.parent
                         ELSE ElRef(Len(S.elements) + 1),
              error |-> ""]
        ELSE
        LET oldId == S.elements[j].id
            fix(x) == [x EXCEPT !._parent = Retarget(x._parent, j, oldId)]
        IN [elements |->
                [k \in 1..Len(S.elements) |->
                    IF k = j THEN fix(e) ELSE fix(S.elements[k])],
            parent |-> IF child THEN Retarget(S.parent, j, oldId)
                       ELSE ElRef(j),
            error |-> ""]

\* One pass of the loop of lines 98-126. S = [elements, parent, error].
MergeItem(S, item) ==
    IF S.error # "" THEN S
    ELSE
    LET e0 == Construct(item)
        child == e0.parentId = PendingChild
        e == IF child THEN [e0 EXCEPT !._parent = S.parent]
             ELSE [e0 EXCEPT !.parentId = 0]
    IN  IF e.id = Undefined
        THEN [elements |-> Append(S.elements, e),
              parent |-> IF child THEN S.parent
                         ELSE ElRef(Len(S.elements) + 1),
              error |-> ""]
        ELSE LET j == FindById(S.elements, e.id)
             IN IF j = 0
                THEN [S EXCEPT !.error = "Id not found"]
                ELSE
                LET oldId == S.elements[j].id
                    fix(x) == [x EXCEPT !._parent = Retarget(x._parent, j, oldId)]
                IN [elements |->
                        [k \in 1..Len(S.elements) |->
                            IF k = j THEN fix(e) ELSE fix(S.elements[k])],
                    parent |-> IF child THEN Retarget(S.parent, j, oldId)
                               ELSE ElRef(j),
                    error |-> ""]

RECURSIVE MergeLoop(_, _, _)
MergeLoop(S, list, i) ==
    IF i > Len(list) THEN S
    ELSE MergeLoop(MergeItem(S, list[i]), list, i + 1)

\* (no item is ever taken to name another Transaction)
MismatchIndexNone(tid, list) == 0

\* Lines 85-89: the position in the list of the first item that names another
\* Transaction than this one, or 0. A Transaction without id has none.
MismatchIndex(tid, list) ==
    LET bad == {i \in 1..Len(list) :
                   /\ Truthy(tid)
                   /\ Truthy(list[i].transactionId)
                   /\ list[i].transactionId # tid}
    IN IF bad = {} THEN 0 ELSE CHOOSE i \in bad : \A k \in bad : i <= k

\* (no list is ever taken to start with a child)
FirstIsChildNever(list) == FALSE

\* Line 91: the first item is a child.
FirstIsChild(list) == Truthy(list[1].parentId)

\* (a merge that works on this.elements itself and so keeps what it did when
\* it rejects)
mergeElementsInPlace(tid, els, list) ==
    IF Len(list) = 0
    THEN [result |-> "No items", elements |-> els, item |-> Undefined]
    ELSE IF MismatchIndex(tid, list) # 0
    THEN [result |-> "transactionId does not match", elements |-> els,
          item |-> MismatchIndex(tid, list) - 1]
    ELSE IF FirstIsChild(list)
    THEN [result |-> "First element must be a non-child", elements |-> els,
          item |-> Undefined]
    ELSE
    LET S == MergeLoop([elements |-> els, parent |-> NoParent, error |-> ""],
                       list, 1)
    IN  IF S.error # ""
        THEN [result |-> S.error, elements |-> S.elements, item |-> Undefined]
        ELSE IF ~isBalanced(S.elements)
        THEN [result |-> "Not balanced", elements |-> S.elements,
              item |-> Undefined]
        ELSE [result |-> "ok", elements |-> S.elements, item |-> Undefined]

\* Lines 85-133: mergeElements of a list that is not empty.
mergeChecked(tid, els, list) ==
    IF MismatchIndex(tid, list) # 0
    THEN [result |-> "transactionId does not match", elements |-> els,
          item |-> MismatchIndex(tid, list) - 1]
    ELSE IF FirstIsChild(list)
    THEN [result |-> "First element must be a non-child", elements |-> els,
          item |-> Undefined]
    ELSE
    LET S == MergeLoop([elements |-> els, parent |-> NoParent, error |-> ""],
                       list, 1)
    IN  IF S.error # ""
        THEN [result |-> S.error, elements |-> els, item |-> Undefined]
        ELSE IF ~isBalanced(S.elements)
        THEN [result |-> "Not balanced", elements |-> els, item |-> Undefined]
        ELSE [result |-> "ok", elements |-> S.elements, item |-> Undefined]

\* (a merge that takes an empty list for an edit that changes nothing)
mergeElementsOfAny(tid, els, list) ==
    IF Len(list) = 0
    THEN [result |-> "ok", elements |-> els, item |-> Undefined]
    ELSE mergeChecked(tid, els, list)

\* mergeElements of a Transaction with id `tid` and elements `els`:
\* [result, elements, item]; result "ok" or the rejection, item the index
\* (from 0) that a transactionId rejection names.
mergeElements(tid, els, list) ==
    IF Len(list) = 0
    THEN [result |-> "No items", elements |-> els, item |-> Undefined]
    ELSE mergeChecked(tid, els, list)

\* ---------------------------------------------------------------------------
\* Storage: the tables `txn` and `txnElement` and their id sequences
\* ---------------------------------------------------------------------------

EmptyDb == [txn |-> {}, txnElement |-> {}, txnSeq |-> 1, elementSeq |-> 1]

\* The columns of an element.
Row(e) ==
    [id |-> e.id, transactionId |-> e.transactionId, amount |-> e.amount,
     drcr |-> e.drcr, currency |-> e.currency, parentId |-> e.parentId,
     taxCode |-> e.taxCode, accountId |-> e.accountId, settleId |-> e.settleId]

\* A storage call of a save in progress. S = [id, elements, before, db, log,
\* ops, failAt, failed]: the call numbered failAt is the one the store refuses.
Refused(S) == S.ops + 1 = S.failAt

Refuse(S) == [S EXCEPT !.ops = @ + 1, !.failed = TRUE]

\* What the log of a save keeps of a storage call on an element: the call, and
\* the element as it was when the save began.
LogEntry(op, S, i) ==
    [op |-> op, id |-> S.elements[i].id,
     child |-> (S.before[i]._parent.k # "none" \/ Truthy(S.before[i].parentId)),
     amount |-> S.before[i].amount, taxCode |-> S.before[i].taxCode]

\* Element.save: insert when the object has no id (the new id is set on the
\* object), else patch the row with that id.
ElementSave(S, i) ==
    LET e == S.elements[i]
    IN  IF Refused(S) THEN Refuse(S)
        ELSE IF e.id = Undefined
        THEN LET n == [e EXCEPT !.id = S.db.elementSeq]
             IN [S EXCEPT !.ops = @ + 1,
                          !.elements[i] = n,
                          !.db.txnElement = @ \cup {Row(n)},
                          !.db.elementSeq = @ + 1,
                          !.log = Append(@, LogEntry("save", S, i))]
        ELSE [S EXCEPT !.ops = @ + 1,
                       !.db.txnElement =
                           {IF r.id = e.id THEN Row(e) ELSE r : r \in @},
                       !.log = Append(@, LogEntry("save", S, i))]

\* Element.delete: delete the row with the object's id.
ElementDelete(S, i) ==
    LET e == S.elements[i]
    IN  IF Refused(S) THEN Refuse(S)
        ELSE [S EXCEPT !.ops = @ + 1,
                       !.db.txnElement = {r \in @ : r.id # e.id},
                       !.log = Append(@, LogEntry("delete", S, i))]

\* ---------------------------------------------------------------------------
\* Transaction._save
\* ---------------------------------------------------------------------------

\* Lines 225-230: insert the Transaction (its new id is set on the object) or
\* patch its row.
SaveTxnRow(S, date) ==
    IF Refused(S) THEN Refuse(S)
    ELSE IF S.id = Undefined
    THEN [S EXCEPT !.ops = @ + 1,
                   !.id = S.db.txnSeq,
                   !.db.txn = @ \cup {[id |-> S.db.txnSeq, date |-> date,
                                        type |-> S.type]},
                   !.db.txnSeq = @ + 1,
                   !.log = Append(@, [op |-> "txn", id |-> S.db.txnSeq,
                                      child |-> FALSE, amount |-> 0,
                                      taxCode |-> ""])]
    ELSE [S EXCEPT !.ops = @ + 1,
                   !.db.txn = {IF r.id = S.id
                               THEN [id |-> S.id, date |-> date,
                                     type |-> S.type]
                               ELSE r : r \in @},
                   !.log = Append(@, [op |-> "txn", id |-> S.id,
                                      child |-> FALSE, amount |-> 0,
                                      taxCode |-> ""])]

\* (batches in which nothing is deleted)
BatchWithoutDeletes(e) ==
    IF e.amount # 0 \/ e.taxCode # ""
    THEN (IF e._parent.k # "none" \/ Truthy(e.parentId) THEN "children"
          ELSE "parents")
    ELSE "none"

\* Lines 240-248: the batch of an element.
Batch(e) ==
    IF e.amount # 0 \/ e.taxCode # ""
    THEN (IF e._parent.k # "none" \/ Truthy(e.parentId) THEN "children"
          ELSE "parents")
    ELSE IF Truthy(e.id) THEN "deletes"
    ELSE "none"

\* The positions of the elements of a batch, in the order of the list.
RECURSIVE BatchOf(_, _, _)
BatchOf(elements, batch, i) ==
    IF i > Len(elements) THEN <<>>
    ELSE (IF Batch(elements[i]) = batch THEN <<i>> ELSE <<>>)
         \o BatchOf(elements, batch, i + 1)

\* Line 242: the elements that will be saved get the Transaction's id.
Stamp(elements, tid) ==
    [i \in 1..Len(elements) |->
        IF Batch(elements[i]) \in {"parents", "children"}
        THEN [elements[i] EXCEPT !.transactionId = tid]
        ELSE elements[i]]

\* Lines 251-264, for the element at position d.
DeleteOne(S, children, d) ==
    IF S.failed THEN S
    ELSE
    LET eid == S.elements[d].id
        pointed == [i \in 1..Len(S.elements) |->
                       IF /\ \E k \in 1..Len(children) : children[k] = i
                          /\ S.elements[i].parentId = eid
                       THEN [S.elements[i] EXCEPT !._parent = ElRef(d)]
                       ELSE S.elements[i]]
        T == ElementDelete([S EXCEPT !.elements = pointed], d)
    IN  IF T.failed THEN T
        ELSE [T EXCEPT !.elements[d].id = 0]

RECURSIVE DeleteLoop(_, _, _, _)
DeleteLoop(S, children, deletes, k) ==
    IF k > Len(deletes) THEN S
    ELSE DeleteLoop(DeleteOne(S, children, deletes[k]), children, deletes, k + 1)

\* Lines 267-269.
RECURSIVE ParentLoop(_, _, _)
ParentLoop(S, parents, k) ==
    IF k > Len(parents) THEN S
    ELSE ParentLoop(IF S.failed THEN S ELSE ElementSave(S, parents[k]),
                    parents, k + 1)

\* `e._parent.id`
ParentObjectId(elements, ref) ==
    IF ref.k = "el" THEN elements[ref.v].id ELSE ref.v

\* (a save of the children that does not fill in their parentId)
ChildOneUnresolved(S, c) ==
    IF S.failed \/ S.elements[c]._parent.k = "none" THEN S
    ELSE ElementSave([S EXCEPT !.elements[c]._parent = NoParent], c)

\* Lines 276-286, for the element at position c.
ChildOne(S, c) ==
    IF S.failed \/ S.elements[c]._parent.k = "none" THEN S
    ELSE
    LET pid == ParentObjectId(S.elements, S.elements[c]._parent)
        e == [S.elements[c] EXCEPT !.parentId = IF Truthy(pid) THEN pid ELSE 0,
                                   !._parent = NoParent]
        T == [S EXCEPT !.elements[c] = e]
    IN  IF ~Truthy(e.parentId) /\ e.amount = 0
        THEN ElementDelete(T, c)
        ELSE ElementSave(T, c)

RECURSIVE ChildLoop(_, _, _)
ChildLoop(S, children, k) ==
    IF k > Len(children) THEN S
    ELSE ChildLoop(ChildOne(S, children[k]), children, k + 1)

\* (the batches in another order: parents, then deletes, then children)
ParentsBeforeDeletes(S, parents, children, deletes) ==
    ChildLoop(DeleteLoop(ParentLoop(S, parents, 1), children, deletes, 1),
              children, 1)

\* Lines 250-287: deletes, then parents, then children.
SaveBatches(S, parents, children, deletes) ==
    ChildLoop(ParentLoop(DeleteLoop(S, children, deletes, 1), parents, 1),
              children, 1)

\* Transaction._save on the connection `db`; the storage call numbered failAt
\* (if any) is refused and ends the save.
_save(tid, type, els, date, db, failAt) ==
    LET S0 == SaveTxnRow([id |-> tid, type |-> type, elements |-> els, db |-> db,
                          before |-> els, log |-> <<>>, ops |-> 0,
                          failAt |-> failAt,
                          failed |-> FALSE], date)
    IN  IF S0.failed THEN S0
        ELSE
        LET S1 == [S0 EXCEPT !.elements = Stamp(S0.elements, S0.id)]
        IN SaveBatches(S1, BatchOf(els, "parents", 1),
                       BatchOf(els, "children", 1),
                       BatchOf(els, "deletes", 1))

\* ---------------------------------------------------------------------------
\* Transaction.condenseElements
\* ---------------------------------------------------------------------------

\* Line 297-298: the filter's verdict on an element.
Kept(e) ==
    LET remove == ~Truthy(e.parentId) \/ (Truthy(e.parentId) /\ e.taxCode = "")
    IN e.amount # 0 \/ ~remove

\* Line 301: the comparator `a.id! - b.id!`; a NaN result counts as 0.
Compare(a, b) ==
    IF a.id = Undefined \/ b.id = Undefined THEN 0 ELSE a.id - b.id

\* Array.prototype.sort as V8 runs it on a short array: the leading run is
\* found (and reversed when descending), the rest is inserted by binary search.
RECURSIVE RunEnd(_, _, _)
RunEnd(s, descending, i) ==
    IF i > Len(s) THEN i
    ELSE LET order == Compare(s[i], s[i - 1])
         IN IF (descending /\ order >= 0) \/ (~descending /\ order < 0) THEN i
            ELSE RunEnd(s, descending, i + 1)

Reverse(s) == [i \in 1..Len(s) |-> s[Len(s) + 1 - i]]

RECURSIVE BinarySearch(_, _, _, _)
BinarySearch(s, pivot, left, right) ==
    IF left >= right THEN left
    ELSE LET mid == left + ((right - left) \div 2)
         IN IF Compare(pivot, s[mid]) < 0
            THEN BinarySearch(s, pivot, left, mid)
            ELSE BinarySearch(s, pivot, mid + 1, right)

RECURSIVE BinaryInsertionSort(_, _)
BinaryInsertionSort(s, start) ==
    IF start > Len(s) THEN s
    ELSE LET at == BinarySearch(s, s[start], 1, start)
         IN BinaryInsertionSort(
                SubSeq(s, 1, at - 1) \o <<s[start]>> \o SubSeq(s, at, start - 1)
                    \o SubSeq(s, start + 1, Len(s)),
                start + 1)

Sort(s) ==
    IF Len(s) < 2 THEN s
    ELSE LET descending == Compare(s[2], s[1]) < 0
             end == RunEnd(s, descending, 3)
             run == IF descending
                    THEN Reverse(SubSeq(s, 1, end - 1)) \o SubSeq(s, end, Len(s))
                    ELSE s
         IN BinaryInsertionSort(run, end)

RECURSIVE KeptPositions(_, _)
KeptPositions(els, i) ==
    IF i > Len(els) THEN <<>>
    ELSE (IF Kept(els[i]) THEN <<[id |-> els[i].id, pos |-> i]>> ELSE <<>>)
         \o KeptPositions(els, i + 1)

\* The elements at the given positions, in that order; a `_parent` reference
\* follows its object to the object's new position, or holds the object
\* itself when the object is no longer in the list.
Rearranged(els, order) ==
    LET moved(ref) ==
            IF ref.k # "el" THEN ref
            ELSE IF \E k \in 1..Len(order) : order[k].pos = ref.v
            THEN ElRef(CHOOSE k \in 1..Len(order) : order[k].pos = ref.v)
            ELSE ObjRef(els[ref.v].id)
    IN [k \in 1..Len(order) |->
            [els[order[k].pos] EXCEPT !._parent = moved(@)]]

\* (a condense that removes only the first element the filter rejects)
condenseFirstOnly(els) ==
    LET kept == KeptPositions(els, 1)
        all == [i \in 1..Len(els) |-> [id |-> els[i].id, pos |-> i]]
        gone == {i \in 1..Len(els) : ~Kept(els[i])}
        first == IF gone = {} THEN 0
                 ELSE CHOOSE i \in gone : \A j \in gone : i <= j
    IN Rearranged(els, Sort(SelectSeq(all, LAMBDA x : x.pos # first)))

\* (condenseElements that keeps every element with a tax code)
condenseKeepTaxed(els) ==
    LET kept == SelectSeq([i \in 1..Len(els) |-> [id |-> els[i].id, pos |-> i]],
                          LAMBDA x : els[x.pos].amount # 0
                                       \/ els[x.pos].taxCode # "")
    IN Rearranged(els, Sort(kept))

\* Lines 294-303.
condenseElements(els) == Rearranged(els, Sort(KeptPositions(els, 1)))

\* ---------------------------------------------------------------------------
\* The state machine
\* ---------------------------------------------------------------------------

VARIABLES
    id,         \* this.id
    type,       \* this.type
    date,       \* this.date
    elements,   \* this.elements
    db,         \* the committed rows of storage
    op,         \* the last call made on the Transaction
    result,     \* how that call ended: "ok", or what it rejected with
    list,       \* the list of the last accepted mergeElements; the
                \* settlements that the payments form holds
    log,        \* the storage calls of the last save, in order
    stage,      \* how far the calls so far end with an accepted
                \* mergeElements (1), a successful save (2), condenseElements (3)
    merges,     \* the number of mergeElements calls so far
    failures,   \* the number of saves that a refused storage call ended
    args        \* the arguments of the last query; the item that the last
                \* mergeElements named; the results of the queries for unpaid
                \* invoices made after each commit of a settlement; the rows
                \* of a form and what was submitted of them

vars ==
    <<id, type, date, elements, db, op, result, list, log, stage, merges,
      failures, args>>

\* The dates a Transaction is constructed with: none, a date-only string, a
\* string with a time component.
Dates == {"", "2020-01-01", "2020-01-01T10:00"}

\* isDateOnly of core/date.
isDateOnly(d) == d = "2020-01-01"

\* The items a caller passes to mergeElements. The sign and the currency of a
\* zero amount play no part, and neither does the tax code of a nonzero one.
Items(ids) ==
    {item \in [id : ids,
               transactionId : {Undefined},
               amount : 0..MaxAmount,
               drcr : {Debit, Credit},
               currency : {"USD"},
               parentId : {0, PendingChild},
               taxCode : TaxCodes,
               accountId : {Sales},
               settleId : {0}] :
        /\ item.amount = 0 => item.drcr = Debit
        /\ item.amount # 0 => item.taxCode = ""}

\* The same, and: amounts in a second currency, new items that name a
\* Transaction, new items that carry the id of a parent.
WideItems(ids) ==
    {item \in [id : ids,
               transactionId : {Undefined, 1, 2},
               amount : 0..MaxAmount,
               drcr : {Debit, Credit},
               currency : Currencies,
               parentId : {0, PendingChild, 1},
               taxCode : TaxCodes,
               accountId : {Sales},
               settleId : {0}] :
        /\ item.amount = 0 => item.drcr = Debit /\ item.currency = "USD"
        /\ item.amount # 0 => item.taxCode = ""
        /\ item.transactionId # Undefined =>
              item.id = Undefined /\ item.amount = 0 /\ item.taxCode = ""
                  /\ item.parentId = 0
        /\ item.parentId = 1 => item.id = Undefined /\ item.currency = "USD"}

\* An id that no element has stands for every such id.
IdsFor(els) ==
    LET known == {els[i].id : i \in 1..Len(els)} \ {Undefined, 0}
    IN {Undefined} \cup known \cup {CHOOSE n \in 1..(MaxId + 1) : n \notin known}

NewItem(amount, drcr, parentId, taxCode) ==
    [id |-> Undefined, transactionId |-> Undefined, amount |-> amount,
     drcr |-> drcr, currency |-> "USD", parentId |-> parentId,
     taxCode |-> taxCode, accountId |-> Sales, settleId |-> 0]

\* A first edit of a new Transaction: a line with two children, one of them
\* of amount zero with a tax code.
FirstEdits ==
    {<<NewItem(1, Credit, 0, ""), NewItem(1, Debit, PendingChild, ""),
       NewItem(0, Debit, PendingChild, "T")>>}

\* Transaction.construct({date}): no id, no elements; nothing is stored yet.
Constructed ==
    /\ id = Undefined
    /\ type = "sale"
    /\ args = <<>>
    /\ date \in Dates
    /\ elements = <<>>
    /\ db = EmptyDb
    /\ op = "construct"
    /\ result = "ok"
    /\ list = <<>>
    /\ log = <<>>
    /\ stage = 0
    /\ merges = 0
    /\ failures = 0

\* A Transaction after construction, a first mergeElements and a save.
FirstSaved ==
    \E l \in FirstEdits :
        LET m == mergeElements(Undefined, <<>>, l)
            S == _save(Undefined, "sale", m.elements, "2020-01-01", EmptyDb, 0)
        IN  /\ id = S.id
            /\ type = "sale"
            /\ args = <<>>
            /\ date = "2020-01-01"
            /\ elements = S.elements
            /\ db = S.db
            /\ op = "save"
            /\ result = "ok"
            /\ list = <<>>
            /\ log = S.log
            /\ stage = 2
            /\ merges = 0
            /\ failures = 0

Init == Constructed \/ FirstSaved

\* await transaction.mergeElements(l), for a list l of up to MaxList of the `items`
MergeOf(items) ==
    /\ merges < MaxMerges
    /\ \E n \in 0..MaxList : \E l \in [1..n -> items] :
        LET r == mergeElements(id, elements, l)
        IN  /\ Len(r.elements) <= MaxElements
            /\ elements' = r.elements
            /\ op' = "mergeElements"
            /\ result' = r.result
            /\ list' = IF r.result = "ok" THEN l ELSE <<>>
            /\ log' = <<>>
            /\ stage' = IF r.result = "ok" THEN 1 ELSE 0
            /\ merges' = merges + 1
            /\ UNCHANGED <<id, type, date, db, failures, args>>

Merge == MergeOf(Items(IdsFor(elements)))

MergeWide == MergeOf(WideItems(IdsFor(elements)))

\* Base.transaction(callback): what is committed when the callback ends, the
\* writes of S, or nothing when S ended with a refused storage call.
transaction(S, before) == IF S.failed THEN before ELSE S.db

\* (a save that runs _save on the connection itself)
saveOutsideTransaction(S, before) == S.db

\* Lines 220-221: without a trx of the caller, save runs _save inside
\* Base.transaction. The storage that results.
save(S, before) == transaction(S, before)

\* (a save that goes to storage without looking at the date or the balance)
SaveUnchecked ==
    LET S == _save(id, type, elements, date, db, 0)
    IN  /\ S.db.elementSeq <= MaxId + 1
        /\ id' = S.id
        /\ elements' = S.elements
        /\ db' = save(S, db)
        /\ op' = "save"
        /\ result' = "ok"
        /\ log' = S.log
        /\ list' = <<>>
        /\ stage' = 0
        /\ UNCHANGED <<type, date, merges, failures, args>>

\* Lines 210-222: await transaction.save(), in a storage transaction of its
\* own.
Save ==
    \E failAt \in 0..(MaxElements + 1) :
        IF date = "" \/ ~isDateOnly(date)
        THEN /\ failAt = 0
             /\ op' = "save"
             /\ result' = "Invalid date"
             /\ log' = <<>>
             /\ list' = <<>>
             /\ stage' = 0
             /\ UNCHANGED <<id, type, date, elements, db, merges, failures, args>>
        ELSE IF ~isBalanced(elements)
        THEN /\ failAt = 0
             /\ op' = "save"
             /\ result' = "Elements do not balance"
             /\ log' = <<>>
             /\ list' = <<>>
             /\ stage' = 0
             /\ UNCHANGED <<id, type, date, elements, db, merges, failures, args>>
        ELSE LET S == _save(id, type, elements, date, db, failAt)
             IN /\ failAt = 0 \/ (S.failed /\ failures < MaxFailures)
                /\ S.db.elementSeq <= MaxId + 1
                /\ id' = S.id
                /\ elements' = S.elements
                /\ db' = save(S, db)
                /\ op' = "save"
                /\ result' = IF S.failed THEN "storage error" ELSE "ok"
                /\ log' = S.log
                /\ list' = <<>>
                /\ stage' = IF ~S.failed /\ stage = 1 THEN 2 ELSE 0
                /\ failures' = IF S.failed THEN failures + 1 ELSE failures
                /\ UNCHANGED <<type, date, merges, args>>

\* transaction.condenseElements()
Condense ==
    /\ elements' = condenseElements(elements)
    /\ op' = "condenseElements"
    /\ result' = "ok"
    /\ log' = <<>>
    /\ list' = <<>>
    /\ stage' = IF stage = 2 THEN 3 ELSE 0
    /\ UNCHANGED <<id, type, date, db, merges, failures, args>>

Next == Merge \/ Save \/ Condense

\* Merging, saving and condensing one Transaction.
Spec == Init /\ [][Next]_vars

\* Merging alone, from a wider range of items.
SpecMerge == Init /\ [][MergeWide]_vars

\* await transaction.mergeElements(l), keeping what the call was given and
\* which item its rejection named. A rejected call leaves the Transaction as
\* it was, so the calls that could follow it are those that could have been
\* made in its place: they are not made again.
MergeCall ==
    /\ merges < MaxMerges
    /\ result = "ok"
    /\ \E n \in 0..MaxList : \E l \in [1..n -> WideItems(IdsFor(elements))] :
        LET r == mergeElements(id, elements, l)
        IN  /\ Len(r.elements) <= MaxElements
            /\ elements' = r.elements
            /\ op' = "mergeElements"
            /\ result' = r.result
            /\ list' = l
            /\ args' = <<r.item>>
            /\ log' = <<>>
            /\ stage' = IF r.result = "ok" THEN 1 ELSE 0
            /\ merges' = merges + 1
            /\ UNCHANGED <<id, type, date, db, failures>>

\* Merging alone, each call kept with its list.
SpecCall == Init /\ [][MergeCall]_vars

\* A saved Transaction whose `elements` and `date` the caller has set itself
\* (both are public fields), balanced or not.
InitSave ==
    \E l \in FirstEdits :
        LET m == mergeElements(Undefined, <<>>, l)
            S == _save(Undefined, "sale", m.elements, "2020-01-01", EmptyDb, 0)
        IN  /\ id = S.id
            /\ type = "sale"
            /\ date \in Dates
            /\ \E n \in 0..MaxList :
                  elements \in [1..n -> {Construct(item) :
                                           item \in Items(IdsFor(S.elements))}]
            /\ db = S.db
            /\ op = "construct"
            /\ result = "ok"
            /\ list = <<>>
            /\ log = <<>>
            /\ stage = 0
            /\ merges = 0
            /\ failures = 0
            /\ args = <<>>

\* Saving alone.
SpecSave == InitSave /\ [][Save]_vars

\* ---------------------------------------------------------------------------
\* Queries on storage
\* ---------------------------------------------------------------------------

\* The number of Transactions in the storage that prevId and nextId are asked
\* about.
MaxTxn == 3

\* The amounts of invoices and of their payments.
MaxPaid == 2

\* The type of a Transaction constructed without one.
NoType == ""

\* The dates of stored Transactions, in the order in which the store compares
\* them: ISO dates compare as strings.
QueryDates == <<"2020-01-01", "2020-01-02", "2020-01-03">>

DateRank(d) == CHOOSE i \in 1..Len(QueryDates) : QueryDates[i] = d

\* SUM(amount * drcr) over rows.
RECURSIVE SumRows(_)
SumRows(rows) ==
    IF rows = {} THEN 0
    ELSE LET r == CHOOSE x \in rows : TRUE
         IN r.amount * r.drcr + SumRows(rows \ {r})

\* (the balances of the rows that the Transaction made itself, leaving out
\* those that settle it)
BalancesOfOwn(db_, tid, accountId) ==
    LET rows == {r \in db_.txnElement :
                    r.transactionId = tid /\ r.accountId = accountId}
    IN  [c \in {r.currency : r \in rows} |->
            SumRows({r \in rows : r.currency = c})]

\* Lines 362-365: the balance of each currency among the rows of an account
\* that Transaction tid made or that settle it.
Balances(db_, tid, accountId) ==
    LET rows == {r \in db_.txnElement :
                    /\ (r.transactionId = tid \/ r.settleId = tid)
                    /\ r.accountId = accountId}
    IN  [c \in {r.currency : r \in rows} |->
            SumRows({r \in rows : r.currency = c})]

\* unpaidInvoices with `balance > 0` for `balance <> 0`.
unpaidInvoicesOwing(db_, type_, accountId) ==
    {t.id : t \in {x \in db_.txn :
        /\ x.type = type_
        /\ \E c \in DOMAIN Balances(db_, x.id, accountId) :
               Balances(db_, x.id, accountId)[c] > 0}}

\* Transaction.unpaidInvoices: the ids of the rows that
\* Transaction.query().where(Transaction.unpaidInvoices) selects.
unpaidInvoices(db_, type_, accountId) ==
    {t.id : t \in {x \in db_.txn :
        /\ x.type = type_
        /\ \E c \in DOMAIN Balances(db_, x.id, accountId) :
               Balances(db_, x.id, accountId)[c] # 0}}

\* settlements(): the condition, as the set of rows of txn it holds of.
settlements(db_, self) ==
    {t \in db_.txn :
        t.id \in {r.transactionId :
                    r \in {x \in db_.txnElement : x.settleId = self}}}

\* ORDER BY date, id.
RECURSIVE OrderBy(_)
OrderBy(rows) ==
    IF rows = {} THEN <<>>
    ELSE LET first == CHOOSE r \in rows : \A x \in rows :
                 \/ DateRank(r.date) < DateRank(x.date)
                 \/ (r.date = x.date /\ r.id <= x.id)
         IN <<first>> \o OrderBy(rows \ {first})

\* The ids of a sequence of rows.
Ids(rows) == [i \in 1..Len(rows) |-> rows[i].id]

\* The query of InvoicePayment with the rows in the order of their ids.
settlementsQueryById(db_, self) ==
    LET rows == {t \in settlements(db_, self) : t.type = "invoice-payment"}
        ById[n \in 0..(db_.txnSeq - 1)] ==
            IF n = 0 THEN <<>>
            ELSE ById[n - 1] \o
                 (IF \E t \in rows : t.id = n THEN <<n>> ELSE <<>>)
    IN  ById[db_.txnSeq - 1]

\* Transaction.query().where('type', Transaction.InvoicePayment)
\* .where(transaction.settlements()).orderBy(['date', 'id'])
settlementsQuery(db_, self) ==
    Ids(OrderBy({t \in settlements(db_, self) : t.type = "invoice-payment"}))

\* Lines 376-383 and 409-416: the rows of the type(s) asked for. `type_` is
\* [k, v]: k = "none" for a falsy type, "string" for one type (v holds it),
\* "array" for an array of the types in v.
OfType(rows, type_) ==
    IF type_.k = "none" THEN rows ELSE {r \in rows : r.type \in type_.v}

\* Lines 385, 418: t && t.id && t.date. The reference t is [given, id, date],
\* with id = Undefined and date = "" for what it does not have.
HasReference(t) == t.given /\ Truthy(t.id) /\ t.date # ""

\* prevId with the reference included among the rows before it.
prevIdInclusive(db_, t, type_) ==
    LET rows == OfType(db_.txn, type_)
        before == IF HasReference(t)
                  THEN {r \in rows :
                          \/ DateRank(r.date) < DateRank(t.date)
                          \/ (r.date = t.date /\ r.id <= t.id)}
                  ELSE rows
        ordered == Reverse(OrderBy(before))
    IN  IF Len(ordered) > 0 THEN ordered[1].id ELSE 0

\* prevId with the rows in ascending order.
prevIdAscending(db_, t, type_) ==
    LET rows == OfType(db_.txn, type_)
        before == IF HasReference(t)
                  THEN {r \in rows :
                          \/ DateRank(r.date) < DateRank(t.date)
                          \/ (r.date = t.date /\ r.id < t.id)}
                  ELSE rows
        ordered == OrderBy(before)
    IN  IF Len(ordered) > 0 THEN ordered[1].id ELSE 0

\* Transaction.prevId
prevId(db_, t, type_) ==
    LET rows == OfType(db_.txn, type_)
        before == IF HasReference(t)
                  THEN {r \in rows :
                          \/ DateRank(r.date) < DateRank(t.date)
                          \/ (r.date = t.date /\ r.id < t.id)}
                  ELSE rows
        ordered == Reverse(OrderBy(before))
    IN  IF Len(ordered) > 0 THEN ordered[1].id ELSE 0

\* Transaction.nextId
nextId(db_, t, type_) ==
    LET rows == OfType(db_.txn, type_)
        after == IF HasReference(t)
                 THEN {r \in rows :
                         \/ DateRank(r.date) > DateRank(t.date)
                         \/ (r.date = t.date /\ r.id > t.id)}
                 ELSE rows
        ordered == OrderBy(after)
    IN  IF Len(ordered) > 0 THEN ordered[1].id ELSE 0

\* Storage after a new Transaction of the type and date, with the items
\* merged into it, is saved.
Stored(db_, type_, date_, items) ==
    LET m == mergeElements(Undefined, <<>>, items)
    IN  _save(Undefined, type_, m.elements, date_, db_, 0).db

LedgerItem(accountId, drcr, amount, currency, settleId) ==
    [id |-> Undefined, transactionId |-> Undefined, amount |-> amount,
     drcr |-> drcr, currency |-> currency, parentId |-> 0, taxCode |-> "",
     accountId |-> accountId, settleId |-> settleId]

\* The items of an invoice: the receivable, and the revenue.
InvoiceItems(amount, currency) ==
    <<LedgerItem(Receivable, Debit, amount, currency, 0),
      LedgerItem(Sales, Credit, amount, currency, 0)>>

\* The items of a payment (saveFormData of InvoicePayment): the cash, and the
\* receivable with the id of what it settles.
PaymentItems(amount, currency, settleId) ==
    <<LedgerItem(Cash, Debit, amount, currency, 0),
      LedgerItem(Receivable, Credit, amount, currency, settleId)>>

\* The payments stored after the first Transaction: none, or one of a type,
\* date, amount, currency and Transaction settled.
Payments(dates) ==
    {[made |-> FALSE, type |-> NoType, date |-> "2020-01-02", amount |-> 1,
      currency |-> "USD", settleId |-> 0]}
    \cup [made : {TRUE}, type : {"invoice-payment", NoType}, date : dates,
          amount : 1..MaxPaid, currency : Currencies, settleId : 0..2]

StoredPayment(db_, p) ==
    IF p.made
    THEN Stored(db_, p.type, p.date, PaymentItems(p.amount, p.currency, p.settleId))
    ELSE db_

\* A store with a first Transaction that debits the receivable account, and
\* up to two payments after it; `id` is that of the Transaction object the
\* settlements are asked of.
InitLedger ==
    \E type_ \in {"invoice", "sale"}, amount \in 1..MaxPaid, c \in Currencies,
       p1 \in Payments({"2020-01-02"}),
       p2 \in Payments({"2020-01-01", "2020-01-02"}) :
        /\ db = StoredPayment(StoredPayment(
                    Stored(EmptyDb, type_, "2020-01-01", InvoiceItems(amount, c)),
                    p1), p2)
        /\ id \in 1..2
        /\ id < db.txnSeq
        /\ type = (CHOOSE t \in db.txn : t.id = id).type
        /\ date = (CHOOSE t \in db.txn : t.id = id).date
        /\ elements = <<>>
        /\ op = "construct"
        /\ result = "ok"
        /\ list = <<>>
        /\ log = <<>>
        /\ stage = 0
        /\ merges = 0
        /\ failures = 0
        /\ args = <<>>

\* Transaction.query().where(builder =>
\*     Transaction.unpaidInvoices(builder, type, accountId))
UnpaidInvoices ==
    \E type_ \in {"invoice", "sale"}, accountId \in {Receivable, Cash} :
        /\ op' = "unpaidInvoices"
        /\ args' = <<type_, accountId>>
        /\ result' = unpaidInvoices(db, type_, accountId)
        /\ UNCHANGED <<id, type, date, elements, db, list, log, stage, merges,
                       failures>>

\* Transaction.query().where(transaction.settlements())
Settlements ==
    /\ op' = "settlements"
    /\ args' = <<id>>
    /\ result' = {t.id : t \in settlements(db, id)}
    /\ UNCHANGED <<id, type, date, elements, db, list, log, stage, merges,
                   failures>>

\* The query of InvoicePayment for the payments of `transaction`.
SettlementsQuery ==
    /\ op' = "settlementsQuery"
    /\ args' = <<id>>
    /\ result' = settlementsQuery(db, id)
    /\ UNCHANGED <<id, type, date, elements, db, list, log, stage, merges,
                   failures>>

NextLedger == UnpaidInvoices \/ Settlements \/ SettlementsQuery

\* Queries on the postings of invoices and payments.
SpecLedger == InitLedger /\ [][NextLedger]_vars

\* A store with up to MaxTxn Transactions without elements, of the types and
\* dates in `rows`.
RECURSIVE StoredAll(_, _)
StoredAll(rows, n) ==
    IF n = 0 THEN EmptyDb
    ELSE _save(Undefined, rows[n].type, <<>>, rows[n].date,
               StoredAll(rows, n - 1), 0).db

InitNav ==
    \E n \in 0..MaxTxn :
      \E rows \in [1..n -> [type : {"sale", "invoice"},
                            date : {QueryDates[i] : i \in 1..Len(QueryDates)}]] :
        /\ db = StoredAll(rows, n)
        /\ id = Undefined
        /\ type = "sale"
        /\ date = ""
        /\ elements = <<>>
        /\ op = "construct"
        /\ result = "ok"
        /\ list = <<>>
        /\ log = <<>>
        /\ stage = 0
        /\ merges = 0
        /\ failures = 0
        /\ args = <<>>

\* The references prevId and nextId are given: none, or an object that may
\* lack an id (or have the id 0) and may lack a date.
References ==
    {[given |-> FALSE, id |-> Undefined, date |-> ""]}
    \cup [given : {TRUE}, id : {Undefined} \cup 0..MaxTxn,
          date : {""} \cup {QueryDates[i] : i \in 1..Len(QueryDates)}]

\* The types they are given: none, one, or an array of some.
TypeArgs ==
    {[k |-> "none", v |-> {}]}
    \cup [k : {"string"}, v : {{"sale"}, {"invoice"}}]
    \cup [k : {"array"}, v : SUBSET {"sale", "invoice"}]

\* await Transaction.prevId(t, type). A query leaves the store as it was, so
\* the queries that could follow it are those that could have been made in
\* its place: they are not made again.
PrevId ==
    \E t \in References, type_ \in TypeArgs :
        /\ op = "construct"
        /\ op' = "prevId"
        /\ args' = <<t, type_>>
        /\ result' = prevId(db, t, type_)
        /\ UNCHANGED <<id, type, date, elements, db, list, log, stage, merges,
                       failures>>

\* await Transaction.nextId(t, type)
NextId ==
    \E t \in References, type_ \in TypeArgs :
        /\ op = "construct"
        /\ op' = "nextId"
        /\ args' = <<t, type_>>
        /\ result' = nextId(db, t, type_)
        /\ UNCHANGED <<id, type, date, elements, db, list, log, stage, merges,
                       failures>>

NextNav == PrevId \/ NextId

\* Stepping from one Transaction to the one before or after it.
SpecNav == InitNav /\ [][NextNav]_vars

\* The number of commits made on a payment.
MaxCommits == 4

\* Lines 146-155: getFirstCrElement(drcr), as the position of the element
\* (0 when there is none).
getFirstCrElement(els, drcr) ==
    IF \E i \in 1..Len(els) : els[i].drcr = drcr
    THEN CHOOSE i \in 1..Len(els) :
            els[i].drcr = drcr /\ \A k \in 1..(i - 1) : els[k].drcr # drcr
    ELSE 0

\* The items of a settlement of Transaction 1: the cash and the receivable,
\* new (ids Undefined) or the elements with the ids. The test gives the
\* Transaction settled on both, the payments form on the receivable alone.
SettleItems(drId, crId, amount, currency, cashSettles) ==
    <<[LedgerItem(Cash, Debit, amount, currency, cashSettles) EXCEPT !.id = drId],
      [LedgerItem(Receivable, Credit, amount, currency, 1) EXCEPT !.id = crId]>>

\* An invoice of MaxPaid USD is stored; a Transaction for its settlement is
\* constructed.
InitSettle ==
    /\ db = Stored(EmptyDb, "invoice", "2020-01-01", InvoiceItems(MaxPaid, "USD"))
    /\ id = Undefined
    /\ type = NoType
    /\ date = "2020-01-01"
    /\ elements = <<>>
    /\ op = "construct"
    /\ result = "ok"
    /\ list = <<>>
    /\ log = <<>>
    /\ stage = 0
    /\ merges = 0
    /\ failures = 0
    /\ args = <<>>

\* A commit on the settlement: mergeElements of a new pair of items, or of a
\* pair that changes the first debit and the first credit element (an amount
\* of 0 deletes them); save(); condenseElements(). Then
\* Transaction.query().where(Transaction.unpaidInvoices), whose result is
\* added to `args`.
Settle ==
    /\ merges < MaxCommits
    /\ \E amount \in 0..MaxPaid, c \in Currencies, cashSettles \in {0, 1},
          byId \in BOOLEAN :
        LET dr == getFirstCrElement(elements, Debit)
            cr == getFirstCrElement(elements, Credit)
            l == IF byId
                 THEN SettleItems(elements[dr].id, elements[cr].id, amount, c,
                                  cashSettles)
                 ELSE SettleItems(Undefined, Undefined, amount, c, cashSettles)
            mg == mergeElements(id, elements, l)
            refusal == IF mg.result # "ok" THEN mg.result
                       ELSE IF date = "" \/ ~isDateOnly(date) THEN "Invalid date"
                       ELSE IF ~isBalanced(mg.elements)
                       THEN "Elements do not balance"
                       ELSE "ok"
            S == _save(id, type, mg.elements, date, db, 0)
        IN  /\ byId => dr # 0 /\ cr # 0
            /\ ~byId => amount > 0
            /\ amount = 0 => c = "USD" /\ cashSettles = 0
            /\ Len(mg.elements) <= MaxElements
            /\ op' = "settle"
            /\ result' = refusal
            /\ list' = l
            /\ merges' = merges + 1
            /\ IF refusal = "ok"
               THEN /\ id' = S.id
                    /\ elements' = condenseElements(S.elements)
                    /\ db' = save(S, db)
                    /\ log' = S.log
                    /\ args' = Append(args,
                                      unpaidInvoices(save(S, db), "invoice",
                                                     Receivable))
               ELSE /\ elements' = mg.elements
                    /\ log' = <<>>
                    /\ UNCHANGED <<id, db, args>>
            /\ UNCHANGED <<type, date, stage, failures>>

\* An invoice and the commits of its settlement.
SpecSettle == InitSettle /\ [][Settle]_vars

\* The number of elements whose balances are asked for.
MaxPostings == 3

\* Any elements, in any order: what the balances read of them.
InitBalances ==
    /\ \E n \in 0..MaxPostings :
          elements \in [1..n -> [amount : 0..MaxPaid, drcr : {Debit, Credit},
                                 currency : {CurrencyCodes[i] :
                                               i \in 1..Len(CurrencyCodes)}]]
    /\ id = Undefined
    /\ type = NoType
    /\ date = ""
    /\ db = EmptyDb
    /\ op = "construct"
    /\ result = "ok"
    /\ list = <<>>
    /\ log = <<>>
    /\ stage = 0
    /\ merges = 0
    /\ failures = 0
    /\ args = <<>>

\* Transaction.getSums(elements) (sum) or Transaction.getDebitBalances(elements)
GetBalances ==
    \E sum \in BOOLEAN :
        /\ op = "construct"
        /\ op' = "getBalances"
        /\ args' = <<sum>>
        /\ result' = _getBalances(elements, sum)
        /\ UNCHANGED <<id, type, date, elements, db, list, log, stage, merges,
                       failures>>

\* The balances of a list of elements.
SpecBalances == InitBalances /\ [][GetBalances]_vars

\* The length of the lists in which roots and children follow one another.
MaxLong == 3

\* Items for such lists: new or naming an element, of amount 0 or 1, a root,
\* a pending child, or with the id of a parent.
AttachItems(ids) ==
    {item \in [id : ids,
               transactionId : {Undefined},
               amount : 0..MaxAmount,
               drcr : {Debit, Credit},
               currency : {"USD"},
               parentId : {0, PendingChild, 1},
               taxCode : {""},
               accountId : {Sales},
               settleId : {0}] :
        item.amount = 0 => item.drcr = Debit}

\* await transaction.mergeElements(l), once, for a list of up to MaxLong
\* items, kept with the call.
MergeLong ==
    /\ merges = 0
    /\ \E n \in 0..MaxLong :
        \E l \in [1..n -> AttachItems(IdsFor(elements) \ {MaxId + 1})] :
        LET r == mergeElements(id, elements, l)
        IN  /\ elements' = r.elements
            /\ op' = "mergeElements"
            /\ result' = r.result
            /\ list' = l
            /\ args' = <<r.item>>
            /\ log' = <<>>
            /\ stage' = IF r.result = "ok" THEN 1 ELSE 0
            /\ merges' = merges + 1
            /\ UNCHANGED <<id, type, date, db, failures>>

\* One merge of a longer list.
SpecAttach == Init /\ [][MergeLong]_vars

\* await transaction.save() that a refused storage call ends, and
\* await transaction.save() again. `args` keeps the storage that the first
\* save would have left had no call been refused.
SaveAndRetry ==
    \E failAt \in 1..(MaxElements + 1) :
        LET S1 == _save(id, type, elements, date, db, failAt)
            db1 == save(S1, db)
            S2 == _save(S1.id, type, S1.elements, date, db1, 0)
            S0 == _save(id, type, elements, date, db, 0)
        IN  /\ date # "" /\ isDateOnly(date)
            /\ isBalanced(elements)
            /\ S1.failed
            /\ isBalanced(S1.elements)
            /\ S2.db.elementSeq <= MaxId + 1
            /\ id' = S2.id
            /\ elements' = S2.elements
            /\ db' = save(S2, db1)
            /\ op' = "retry"
            /\ result' = "ok"
            /\ log' = S2.log
            /\ list' = <<>>
            /\ stage' = 0
            /\ args' = <<save(S0, db)>>
            /\ UNCHANGED <<type, date, merges, failures>>

\* The first mergeElements of a behaviour.
MergeOnce == merges = 0 /\ Merge

NextRetry == MergeOnce \/ SaveAndRetry

\* One merge, and saves with one refused attempt before the successful one.
SpecRetry == Init /\ [][NextRetry]_vars

\* The payments form of an invoice (InvoicePayment): `list` holds its
\* settlements, the payment Transactions it loaded or created, and `args`
\* its rows. The invoice is Transaction 1.
MaxSubmits == 2

\* withGraphFetched('elements'): the elements of a stored Transaction, by id.
RECURSIVE FetchedFrom(_, _, _)
FetchedFrom(db_, tid, n) ==
    IF n >= db_.elementSeq THEN <<>>
    ELSE (IF \E r \in db_.txnElement : r.id = n /\ r.transactionId = tid
          THEN <<Construct(CHOOSE r \in db_.txnElement : r.id = n)>>
          ELSE <<>>) \o FetchedFrom(db_, tid, n + 1)

Fetched(db_, tid) == FetchedFrom(db_, tid, 1)

\* The rows of the query for the payments of `self`, as Transactions.
Loaded(db_, self) ==
    LET ids == settlementsQuery(db_, self)
    IN  [k \in 1..Len(ids) |->
            LET t == CHOOSE t \in db_.txn : t.id = ids[k]
            IN  [id |-> t.id, type |-> t.type, date |-> t.date,
                 elements |-> Fetched(db_, t.id)]]

\* The rows that extractFormValues makes of one settlement: one for each
\* credit element of the receivable account.
RowsOf(s) ==
    LET credits == SelectSeq(s.elements,
                             LAMBDA e : e.drcr = Credit /\ e.accountId = Receivable)
    IN  [k \in 1..Len(credits) |->
            [tId |-> s.id, date |-> s.date, amount |-> credits[k].amount,
             currency |-> credits[k].currency]]

RECURSIVE PaymentRows(_, _)
PaymentRows(settlements_, i) ==
    IF i > Len(settlements_) THEN <<>>
    ELSE RowsOf(settlements_[i]) \o PaymentRows(settlements_, i + 1)

\* extractFormValues: the rows of the settlements, then the row of a new
\* payment, of the last saved date and in the currency of the first element
\* of the invoice.
extractFormValues(currency, settlements_) ==
    Append(PaymentRows(settlements_, 1),
           [tId |-> Undefined, date |-> "2020-01-01", amount |-> 0,
            currency |-> currency])

\* Line 249: settlements[data.index], as a position (0 for undefined).
PaymentAt(settlements_, index) ==
    IF index + 1 <= Len(settlements_) THEN index + 1 ELSE 0

\* payment.condenseElements() after a save that succeeded.
Committed(payment, S, db_) ==
    [result |-> "ok",
     payment |-> [payment EXCEPT !.id = S.id,
                                 !.elements = condenseElements(S.elements)],
     db |-> save(S, db_)]

\* payment.save(trx) of the elements that mergeElements left.
AfterMerge(payment, mg, db_) ==
    IF mg.result # "ok"
    THEN [result |-> mg.result,
          payment |-> [payment EXCEPT !.elements = mg.elements], db |-> db_]
    ELSE IF payment.date = "" \/ ~isDateOnly(payment.date)
    THEN [result |-> "Invalid date",
          payment |-> [payment EXCEPT !.elements = mg.elements], db |-> db_]
    ELSE IF ~isBalanced(mg.elements)
    THEN [result |-> "Elements do not balance",
          payment |-> [payment EXCEPT !.elements = mg.elements], db |-> db_]
    ELSE Committed(payment,
                   _save(payment.id, payment.type, mg.elements, payment.date,
                         db_, 0),
                   db_)

\* mergeElements, save and condenseElements of a payment with the two items
\* of saveFormData: [result, payment, db].
SavePayment(payment, l, db_) ==
    AfterMerge(payment, mergeElements(payment.id, payment.elements, l), db_)

\* The outcome of saveFormData: [result, settlements, db, payment]; payment
\* is the position in settlements of the Transaction merged and saved, 0
\* when there is none.
NotSaved(refusal, settlements_, db_) ==
    [result |-> refusal, settlements |-> settlements_, db |-> db_,
     payment |-> 0]

\* Lines 253-274: the items with the ids of the first debit and the first
\* credit element (positions dr and cr, 0 for undefined) of the payment.
ModifyElements(settlements_, k, payment, dr, cr, r) ==
    IF dr = 0 \/ cr = 0
    THEN NotSaved("TypeError", [settlements_ EXCEPT ![k] = payment], r.db)
    ELSE [result |-> r.result,
          settlements |-> [settlements_ EXCEPT ![k] = r.payment],
          db |-> r.db, payment |-> k]

\* Lines 250-274: the payment is modified.
ModifyPayment(settlements_, k, payment, dr, cr, item, db_) ==
    ModifyElements(settlements_, k, payment, dr, cr,
        IF dr = 0 \/ cr = 0
        THEN [db |-> db_]
        ELSE SavePayment(payment,
                         SettleItems(payment.elements[dr].id,
                                     payment.elements[cr].id,
                                     item.amount, item.currency, 0),
                         db_))

\* Lines 247-275: the row has a tId.
ExistingPayment(settlements_, k, item, db_) ==
    IF k = 0
    THEN NotSaved("TypeError", settlements_, db_)
    ELSE ModifyPayment(settlements_, k,
                       [settlements_[k] EXCEPT !.date = item.date],
                       getFirstCrElement(settlements_[k].elements, Debit),
                       getFirstCrElement(settlements_[k].elements, Credit),
                       item, db_)

\* Lines 276-306: a payment is created, and pushed to the settlements.
NewPayment(settlements_, r, db_) ==
    IF r.result = "ok"
    THEN [result |-> "ok", settlements |-> Append(settlements_, r.payment),
          db |-> r.db, payment |-> Len(settlements_) + 1]
    ELSE NotSaved(r.result, settlements_, db_)

\* saveFormData of the row `index` (from 0), `item` with the amount and the
\* currency it was given.
saveFormData(settlements_, item, index, db_) ==
    IF Truthy(item.tId)
    THEN ExistingPayment(settlements_, PaymentAt(settlements_, index), item, db_)
    ELSE IF item.amount > 0
    THEN NewPayment(settlements_,
                    SavePayment([id |-> Undefined, type |-> "invoice-payment",
                                 date |-> item.date, elements |-> <<>>],
                                SettleItems(Undefined, Undefined, item.amount,
                                            item.currency, 0),
                                db_),
                    db_)
    ELSE NotSaved("No amount specified", settlements_, db_)

\* The store after a first save of a new Transaction with `items`, none of
\* them a child or of amount zero: the rows that Stored leaves.
Inserted(db_, type_, date_, items) ==
    [txn |-> db_.txn \cup {[id |-> db_.txnSeq, type |-> type_, date |-> date_]},
     txnElement |-> db_.txnElement \cup
        {[items[k] EXCEPT !.id = db_.elementSeq + k - 1,
                          !.transactionId = db_.txnSeq] : k \in 1..Len(items)},
     txnSeq |-> db_.txnSeq + 1,
     elementSeq |-> db_.elementSeq + Len(items)]

\* The payments stored for the invoice: none, a payment of one currency, or
\* one of both currencies, with a credit of the receivable account for each.
FormPayments ==
    {<<>>} \cup {PaymentItems(1, c, 1) : c \in Currencies}
    \cup {PaymentItems(1, "USD", 1) \o PaymentItems(1, "EUR", 1)}

\* An invoice with up to two payments; the form has made its query and its
\* rows.
InitPayForm ==
    \E c \in Currencies, p1 \in FormPayments, p2 \in FormPayments :
        LET invoice == Inserted(EmptyDb, "invoice", "2020-01-01",
                                InvoiceItems(MaxPaid, c))
            paid(db_, p) == IF p = <<>> THEN db_
                            ELSE Inserted(db_, "invoice-payment", "2020-01-01", p)
        IN  /\ db = paid(paid(invoice, p1), p2)
            /\ list = Loaded(db, 1)
            /\ args = [payments |-> extractFormValues(c, list),
                       index |-> 0, item |-> Undefined, currency |-> c]
            /\ id = Undefined
            /\ type = NoType
            /\ date = ""
            /\ elements = <<>>
            /\ op = "construct"
            /\ result = "ok"
            /\ log = <<>>
            /\ stage = 0
            /\ merges = 0
            /\ failures = 0

\* onSubmit of a row, with the amount and the currency the row was given. An
\* accepted submit resets the rows from the settlements.
Submit ==
    /\ merges < MaxSubmits
    /\ \E index \in 0..(Len(args.payments) - 1), amount \in 0..MaxPaid,
          c \in Currencies :
        \E item \in {[args.payments[index + 1] EXCEPT !.amount = amount,
                                                      !.currency = c]} :
        \E r \in {saveFormData(list, item, index, db)} :
            /\ op' = "saveFormData"
            /\ result' = r.result
            /\ list' = r.settlements
            /\ db' = r.db
            /\ merges' = merges + 1
            /\ args' = [args EXCEPT
                        !.payments = IF r.result = "ok"
                                     THEN extractFormValues(args.currency,
                                                            r.settlements)
                                     ELSE @,
                        !.index = index, !.item = item]
            /\ IF r.payment # 0
               THEN /\ id' = r.settlements[r.payment].id
                    /\ type' = r.settlements[r.payment].type
                    /\ date' = r.settlements[r.payment].date
                    /\ elements' = r.settlements[r.payment].elements
               ELSE /\ id' = Undefined
                    /\ type' = NoType
                    /\ date' = ""
                    /\ elements' = <<>>
            /\ UNCHANGED <<log, stage, failures>>

\* An invoice, its payments, and submits of the rows of its payments form.
SpecPayForm == InitPayForm /\ [][Submit]_vars

\* The Sale form: saveFormData of Sale.tsx on a Transaction of type sale.
MaxRows == 2

\* Account.Reserved.TaxPayable.
TaxPayable == 13

\* Lines 162-177: getDrElementIds(), the ids of the debit elements.
getCrElementIds(els, drcr) ==
    LET found == SelectSeq(els, LAMBDA e : e.drcr = drcr)
    IN  [k \in 1..Len(found) |-> found[k].id]

getDrElementIds(els) == getCrElementIds(els, Debit)

\* Lines 463-469.
getCreditBalances(els) ==
    LET balances == _getBalances(els, FALSE)
    IN  [k \in 1..Len(balances) |->
            [amount |-> -balances[k].amount, currency |-> balances[k].currency]]

\* Lines 690-730: the items of a row of the form, the line and its taxes, in
\* the currency of the first row.
RowItems(row, c) ==
    <<[id |-> IF Truthy(row.eId) THEN row.eId ELSE Undefined,
       transactionId |-> Undefined, amount |-> row.amount, drcr |-> Credit,
       currency |-> c, parentId |-> 0, taxCode |-> "", accountId |-> Sales,
       settleId |-> 0]>>
    \o [k \in 1..Len(row.taxes) |->
        [id |-> IF Truthy(row.taxes[k].eId) THEN row.taxes[k].eId ELSE Undefined,
         transactionId |-> Undefined, amount |-> row.taxes[k].amount,
         drcr |-> Credit, currency |-> c, parentId |-> PendingChild,
         taxCode |-> row.taxes[k].taxCode, accountId |-> TaxPayable,
         settleId |-> 0]]

RECURSIVE CreditItems(_, _, _)
CreditItems(rows, c, i) ==
    IF i > Len(rows) THEN <<>>
    ELSE RowItems(rows[i], c) \o CreditItems(rows, c, i + 1)

\* Lines 734-746: a debit for each credit balance, with the ids of the debit
\* elements for as long as there are any.
BalancingItems(balances, ids) ==
    [k \in 1..Len(balances) |->
        [id |-> IF k <= Len(ids) THEN ids[k] ELSE Undefined,
         transactionId |-> Undefined, amount |-> balances[k].amount,
         drcr |-> Debit, currency |-> balances[k].currency, parentId |-> 0,
         taxCode |-> "", accountId |-> Cash, settleId |-> 0]]

\* (the balancing items alone: no id that is left is zeroed)
ZeroedItemsNone(used, ids) == <<>>

\* Lines 749-756: the ids that are left are zeroed. The item has no account,
\* tax code or parent; a tax code that is undefined is as falsy as ''.
ZeroedItems(used, ids) ==
    [k \in 1..(IF Len(ids) > used THEN Len(ids) - used ELSE 0) |->
        [id |-> ids[used + k], transactionId |-> Undefined, amount |-> 0,
         drcr |-> Debit, currency |-> "", parentId |-> 0, taxCode |-> "",
         accountId |-> Undefined, settleId |-> Undefined]]

\* Lines 689-756: the list that saveFormData merges.
WithBalancing(credits, balances, ids) ==
    credits \o BalancingItems(balances, ids) \o ZeroedItems(Len(balances), ids)

SaleItems(els, rows, c) ==
    WithBalancing(CreditItems(rows, c, 1),
                  getCreditBalances(CreditItems(rows, c, 1)),
                  getDrElementIds(els))

\* The rows of the form of a Transaction: a line of an amount, with the id
\* of a credit element that is no child or none, and up to one tax, with
\* the id of a credit element that is a child or none.
FormRows(els) ==
    LET credits == {i \in 1..Len(els) :
                        els[i].drcr = Credit /\ Truthy(els[i].id)}
        lines == {els[i].id : i \in {j \in credits : ~Truthy(els[j].parentId)}}
        subs == {els[i].id : i \in {j \in credits : Truthy(els[j].parentId)}}
    IN  [eId : lines \cup {Undefined}, amount : 0..MaxAmount,
         taxes : {<<>>} \cup {<<t>> : t \in [eId : subs \cup {Undefined},
                                            amount : 0..MaxAmount,
                                            taxCode : TaxCodes]}]

\* The forms of n rows; the first row alone has taxes.
FormData(els, n) ==
    IF n = 0 THEN {<<>>}
    ELSE {<<first>> \o more :
            first \in FormRows(els),
            more \in [1..(n - 1) -> {r \in FormRows(els) : r.taxes = <<>>}]}

\* The ids of the rows and of their taxes, in order.
RECURSIVE EIds(_, _)
EIds(rows, i) ==
    IF i > Len(rows) THEN <<>>
    ELSE <<rows[i].eId>>
         \o [k \in 1..Len(rows[i].taxes) |-> rows[i].taxes[k].eId]
         \o EIds(rows, i + 1)

\* The ids that the rows of a form carry.
RowIds(rows) ==
    LET ids == EIds(rows, 1)
    IN  {ids[i] : i \in 1..Len(ids)} \ {Undefined}

\* No two rows carry the same id.
DistinctIds(rows) ==
    LET ids == EIds(rows, 1)
    IN  \A i, j \in 1..Len(ids) :
            (i # j /\ ids[i] = ids[j]) => ids[i] = Undefined

\* A sale of two currencies, stored by other means than the form.
TwoCurrencySale ==
    <<LedgerItem(Sales, Credit, 1, "USD", 0), LedgerItem(Cash, Debit, 1, "USD", 0),
      LedgerItem(Sales, Credit, 1, "EUR", 0), LedgerItem(Cash, Debit, 1, "EUR", 0)>>

\* A new Transaction, or that sale as loaded.
InitSale ==
    /\ \/ /\ db = EmptyDb
          /\ id = Undefined
          /\ elements = <<>>
       \/ /\ db = Inserted(EmptyDb, "sale", "2020-01-01", TwoCurrencySale)
          /\ id = 1
          /\ elements = Fetched(db, 1)
    /\ type = "sale"
    /\ date = "2020-01-01"
    /\ op = "construct"
    /\ result = "ok"
    /\ list = <<>>
    /\ log = <<>>
    /\ stage = 0
    /\ merges = 0
    /\ failures = 0
    /\ args = <<>>

\* saveFormData(transaction, data) of the Sale form: `args` keeps the rows
\* and the ids of the credit elements before it.
SaleSubmit ==
    /\ merges < MaxSubmits
    /\ \E c \in Currencies, n \in 0..MaxRows :
       \E rows \in FormData(elements, n) :
       \E l \in {SaleItems(elements, rows, c)} :
       \E r \in {SavePayment([id |-> id, type |-> type, date |-> date,
                              elements |-> elements], l, db)} :
            /\ DistinctIds(rows)
            /\ op' = "saveFormData"
            /\ result' = r.result
            /\ list' = l
            /\ args' = [rows |-> rows, currency |-> c,
                        credits |-> {elements[i].id :
                                        i \in {j \in 1..Len(elements) :
                                                elements[j].drcr = Credit}}]
            /\ id' = r.payment.id
            /\ elements' = r.payment.elements
            /\ db' = r.db
            /\ merges' = merges + 1
            /\ UNCHANGED <<type, date, log, stage, failures>>

\* A Transaction and the submits of its Sale form.
SpecSale == InitSale /\ [][SaleSubmit]_vars

\* ---------------------------------------------------------------------------
\* Properties
\* ---------------------------------------------------------------------------

RECURSIVE SetSum(_, _)
SetSum(f, S) ==
    IF S = {} THEN 0
    ELSE LET x == CHOOSE y \in S : TRUE
         IN f[x] + SetSum(f, S \ {x})

\* The net of the elements of a list in a currency: debits less credits.
Net(els, c) ==
    SetSum([i \in 1..Len(els) |-> els[i].drcr * els[i].amount],
           {i \in 1..Len(els) : els[i].currency = c})

\* The net of the stored elements of Transaction t in a currency.
StoredNet(t, c) ==
    LET rows == {r \in db.txnElement : r.transactionId = t /\ r.currency = c}
    IN SetSum([r \in rows |-> r.drcr * r.amount], rows)

\* C1: whatever mergeElements calls were made, accepted or rejected, the
\* elements in memory net to zero in every currency.
C1_MemoryBalanced == \A c \in Currencies : Net(elements, c) = 0

C1_Witness ==
    /\ op = "mergeElements" /\ result = "ok" /\ merges = 2
    /\ \E i, j \in 1..Len(elements) :
          /\ elements[i].currency = "USD" /\ elements[i].amount > 0
          /\ elements[j].currency = "EUR" /\ elements[j].amount > 0

\* C2: a mergeElements that rejects leaves the elements in memory as they
\* were, the same objects with the same values in the same order, and writes
\* nothing to storage.
C2_RejectedMergeChangesNothing ==
    [][(op' = "mergeElements" /\ result' # "ok")
          => (elements' = elements /\ id' = id /\ db' = db)]_vars

C2_Witness ==
    /\ op = "mergeElements" /\ result = "Not balanced"
    /\ Len(elements) >= 3 /\ merges = 2

\* C3: the stored elements of every Transaction net to zero in every
\* currency, in every committed state of storage.
C3_StoredBalanced ==
    \A t \in {r.transactionId : r \in db.txnElement} :
        \A c \in Currencies : StoredNet(t, c) = 0

\* C4: every stored element with a parentId has its parent in storage, in the
\* same Transaction.
C4_NoOrphan ==
    \A r \in db.txnElement :
        r.parentId > 0 =>
            \E q \in db.txnElement :
                q.id = r.parentId /\ q.transactionId = r.transactionId

\* The columns that C5 compares.
Columns(x) ==
    [id |-> x.id, amount |-> x.amount, drcr |-> x.drcr,
     currency |-> x.currency, parentId |-> x.parentId, taxCode |-> x.taxCode]

\* C5: after an accepted mergeElements, a successful save and then
\* condenseElements, the elements in memory are the stored elements of the
\* Transaction, in the order of their ids.
C5_CondensedMatchesStorage ==
    stage = 3 =>
        /\ {Columns(elements[i]) : i \in 1..Len(elements)}
              = {Columns(r) : r \in {q \in db.txnElement : q.transactionId = id}}
        /\ \A i, j \in 1..Len(elements) : i < j => elements[i].id < elements[j].id

\* Element e is a child of the element with id `rid`: by its parentId, or by
\* a `_parent` that mergeElements attached.
ChildOf(els, e, rid) ==
    IF e._parent.k = "none" THEN e.parentId = rid
    ELSE ParentObjectId(els, e._parent) = rid

\* C6: when a save succeeds on a Transaction whose stored root R has the
\* stored children A and B, and in memory R has amount 0 and no tax code, A
\* a nonzero amount and B amount 0, then R's row is gone, A is stored with
\* parentId 0, and B's row is gone.
C6_Cascade ==
    [][(op' = "save" /\ result' = "ok") =>
        \A R, A, B \in db.txnElement :
            \A r, a, b \in 1..Len(elements) :
                (/\ R.parentId = 0 /\ A.parentId = R.id /\ B.parentId = R.id
                 /\ A.id # B.id
                 /\ elements[r].id = R.id /\ elements[a].id = A.id
                 /\ elements[b].id = B.id
                 /\ elements[r].amount = 0 /\ elements[r].taxCode = ""
                 /\ elements[a].amount # 0 /\ elements[b].amount = 0
                 /\ ChildOf(elements, elements[a], R.id)
                 /\ ChildOf(elements, elements[b], R.id))
                =>
                (/\ \A q \in db'.txnElement : q.id # R.id /\ q.id # B.id
                 /\ \E q \in db'.txnElement : q.id = A.id /\ q.parentId = 0)
      ]_vars

\* C7: condensing a condensed list changes nothing.
C7_CondenseIdempotent ==
    op = "condenseElements" => condenseElements(elements) = elements

C7_Witness ==
    /\ op = "condenseElements" /\ Len(elements) >= 3
    /\ \E i \in 1..Len(elements) : elements[i].id = Undefined
    /\ \E i \in 1..Len(elements) : Truthy(elements[i].id)

\* The items of a list that carry no id, in the order of the list.
IdLess(l) == SelectSeq(l, LAMBDA item : item.id = Undefined)

\* The element has the values of the item (and the parentId that
\* mergeElements settles on).
HasValuesOf(e, item) ==
    /\ e.id = item.id /\ e.transactionId = item.transactionId
    /\ e.amount = item.amount /\ e.drcr = item.drcr
    /\ e.currency = item.currency /\ e.taxCode = item.taxCode
    /\ e.parentId = IF item.parentId = PendingChild THEN PendingChild ELSE 0

\* C8: an accepted mergeElements puts each item that carries an id at the
\* position of the element with that id, appends the items without id in
\* their order, and leaves every other element where and as it was.
C8_IdPreservation ==
    [][(op' = "mergeElements" /\ result' = "ok") =>
        LET l == list'
            named(n) == n # Undefined /\ \E i \in 1..Len(l) : l[i].id = n
            last(n) == CHOOSE i \in 1..Len(l) :
                          l[i].id = n /\ \A k \in (i + 1)..Len(l) : l[k].id # n
        IN  /\ Len(elements') = Len(elements) + Len(IdLess(l))
            /\ \A j \in 1..Len(elements) :
                  IF named(elements[j].id)
                  THEN (\A k \in 1..(j - 1) : elements[k].id # elements[j].id)
                          => HasValuesOf(elements'[j], l[last(elements[j].id)])
                  ELSE /\ Row(elements'[j]) = Row(elements[j])
                       /\ (elements'[j]._parent.k = "none")
                             = (elements[j]._parent.k = "none")
            /\ \A k \in 1..Len(IdLess(l)) :
                  HasValuesOf(elements'[Len(elements) + k], IdLess(l)[k])
      ]_vars

C8_Witness ==
    /\ op = "mergeElements" /\ result = "ok"
    /\ Len(list) = 2 /\ Truthy(list[1].id) /\ list[2].id = Undefined
    /\ Len(elements) = 4

\* C9: a save that a refused storage call ended leaves the rows of `txn` and
\* of `txnElement` as they were.
C9_FailedSaveRolledBack ==
    [][(op' = "save" /\ result' = "storage error")
          => (db'.txn = db.txn /\ db'.txnElement = db.txnElement)]_vars

C9_Witness ==
    /\ op = "save" /\ result = "storage error"
    /\ \E i, j \in 1..Len(log) : log[i].op = "delete" /\ log[j].op = "save"

\* The place of a storage call in a save: the Transaction's row, the
\* deletion of an element marked for it, the save of a non-child, and what
\* is done with a child.
Phase(x) ==
    CASE x.op = "txn" -> 0
      [] x.op = "delete" /\ x.amount = 0 /\ x.taxCode = "" -> 1
      [] x.op = "save" /\ ~x.child -> 2
      [] x.op = "save" /\ x.child -> 3
      [] x.op = "delete" /\ x.child /\ x.taxCode # "" -> 3
      [] OTHER -> 4

\* C10: the storage calls of a save come in this order: the Transaction's
\* row, the deletions, the saves of non-children, the children.
C10_WriteOrder ==
    op = "save" =>
        /\ Len(log) > 0 => log[1].op = "txn"
        /\ \A i \in 2..Len(log) : log[i].op # "txn" /\ Phase(log[i]) <= 3
        /\ \A i, j \in 1..Len(log) : i < j => Phase(log[i]) <= Phase(log[j])

C10_Witness ==
    /\ op = "save" /\ result = "ok"
    /\ \A ph \in 0..3 : \E i \in 1..Len(log) : Phase(log[i]) = ph

\* C11: a save of a Transaction without a date-only date ends with the
\* invalid-date error; otherwise a save of elements that do not net to zero in
\* every currency ends with the not-balanced error; either way no storage call
\* is made, no row changes and the elements in memory stay as they were.
C11_SavePreconditions ==
    [][op' = "save" =>
        LET dated == date # "" /\ isDateOnly(date)
            balanced == \A c \in Currencies : Net(elements, c) = 0
        IN  /\ ~dated => result' = "Invalid date"
            /\ (dated /\ ~balanced) => result' = "Elements do not balance"
            /\ (dated /\ balanced) => result' \in {"ok", "storage error"}
            /\ result' \in {"Invalid date", "Elements do not balance"} =>
                  /\ db' = db /\ log' = <<>>
                  /\ elements' = elements /\ id' = id
      ]_vars

C11_Witness ==
    /\ op = "save" /\ result = "Elements do not balance"
    /\ Len(elements) = 2 /\ db.txnElement # {}
    /\ \E i \in 1..2 : Truthy(elements[i].id) /\ elements[i].amount # 0

\* C12: mergeElements of an empty list rejects with 'No items', whatever the
\* elements of the Transaction are, and leaves them as they are.
C12_EmptyListRejected ==
    [][(op' = "mergeElements" /\ list' = <<>>)
          => (result' = "No items" /\ elements' = elements)]_vars

C12_Witness ==
    /\ op = "mergeElements" /\ list = <<>> /\ result = "No items"
    /\ Truthy(id) /\ Len(elements) >= 2

\* Some item of the list carries an id that no element has.
UnknownId(els, l) ==
    \E i \in 1..Len(l) :
        /\ l[i].id # Undefined
        /\ \A j \in 1..Len(els) : els[j].id # l[i].id

\* The positions of the items of the list that name a Transaction other than
\* `tid`.
NamingOther(tid, l) ==
    {i \in 1..Len(l) : /\ Truthy(tid)
                       /\ Truthy(l[i].transactionId)
                       /\ l[i].transactionId # tid}

\* In a merge from `els` to `new`, the items without id were added as new
\* elements, and no element without id was replaced.
IdLessAdded(els, l, new) ==
    /\ Len(new) = Len(els) + Len(IdLess(l))
    /\ \A k \in 1..Len(IdLess(l)) :
          HasValuesOf(new[Len(els) + k], IdLess(l)[k])
    /\ \A j \in 1..Len(els) :
          els[j].id = Undefined => Row(new[j]) = Row(els[j])

\* C13 (as stated): a list with an item whose id no element has is rejected
\* with 'Id not found'; in an accepted merge every item without id is added
\* as a new element.
C13_UnknownIdRejected ==
    [][op' = "mergeElements" =>
        /\ UnknownId(elements, list') => result' = "Id not found"
        /\ result' = "ok" => IdLessAdded(elements, list', elements')
      ]_vars

\* C13 (amended): a list with an item whose id no element has is rejected;
\* with 'Id not found' when the list names no other Transaction and does not
\* start with a child. In an accepted merge every item without id is added as
\* a new element.
C13_UnknownIdAfterChecks ==
    [][op' = "mergeElements" =>
        /\ UnknownId(elements, list') => result' # "ok"
        /\ (/\ UnknownId(elements, list')
            /\ NamingOther(id, list') = {}
            /\ ~Truthy(list'[1].parentId)) => result' = "Id not found"
        /\ result' = "ok" => IdLessAdded(elements, list', elements')
      ]_vars

C13_Witness ==
    /\ op = "mergeElements" /\ result = "Id not found"
    /\ Len(list) = 2 /\ list[1].id = Undefined /\ UnknownId(elements, list)
    /\ \E i \in 1..Len(elements) : elements[i].id = Undefined

\* C14: in a Transaction with an id, a list with an item that names another
\* Transaction is rejected with the transactionId error, which names the
\* index of the first such item; in a Transaction without id no list is
\* rejected with that error.
C14_TransactionIdConsistency ==
    [][op' = "mergeElements" =>
        LET bad == NamingOther(id, list')
        IN  /\ bad # {} =>
                  /\ result' = "transactionId does not match"
                  /\ args'[1] + 1 \in bad
                  /\ \A k \in bad : args'[1] + 1 <= k
            /\ ~Truthy(id) => result' # "transactionId does not match"
      ]_vars

C14_Witness ==
    /\ op = "mergeElements" /\ result = "transactionId does not match"
    /\ Truthy(id) /\ args = <<1>> /\ Len(list) = 2
    /\ list[1].transactionId = id

\* C15 (as stated): a list whose first item has a parentId other than 0 is
\* rejected with 'First element must be a non-child'.
C15_FirstChildRejected ==
    [][(op' = "mergeElements" /\ list' # <<>> /\ Truthy(list'[1].parentId))
          => result' = "First element must be a non-child"]_vars

\* C15 (amended): a list whose first item has a parentId other than 0 is
\* rejected; with 'First element must be a non-child' unless an item of the
\* list names another Transaction, which is reported instead.
C15_FirstChildAfterChecks ==
    [][(op' = "mergeElements" /\ list' # <<>> /\ Truthy(list'[1].parentId))
          => result' = IF NamingOther(id, list') # {}
                       THEN "transactionId does not match"
                       ELSE "First element must be a non-child"]_vars

C15_Witness ==
    /\ op = "mergeElements" /\ result = "First element must be a non-child"
    /\ Len(list) = 2 /\ list[1].parentId = 1 /\ Len(elements) >= 3

\* What the postings of an account that Transaction t made, or that settle
\* it, leave owing in a currency: debits less credits.
Owing(t, accountId, c) ==
    LET rows == {r \in db.txnElement :
                    /\ r.accountId = accountId
                    /\ r.currency = c
                    /\ (r.transactionId = t \/ r.settleId = t)}
    IN SetSum([r \in rows |-> r.drcr * r.amount], rows)

\* C16: unpaidInvoices selects a Transaction exactly when it is of the type
\* asked for and, among the stored postings of the account asked for that it
\* made or that settle it, those of some currency do not sum to zero. An
\* overpaid invoice, and one paid in another currency, are selected.
C16_UnpaidInvoices ==
    op = "unpaidInvoices" =>
        \A t \in db.txn :
            t.id \in result <=>
                /\ t.type = args[1]
                /\ \E c \in Currencies : Owing(t.id, args[2], c) # 0

\* An invoice of 1 that a payment of 2 in its currency settles is selected.
C16_Witness ==
    /\ op = "unpaidInvoices"
    /\ args = <<"invoice", Receivable>>
    /\ \E t \in db.txn, c \in Currencies :
        /\ t.id \in result
        /\ Owing(t.id, Receivable, c) < 0
        /\ \E r \in db.txnElement :
            r.transactionId = t.id /\ r.accountId = Receivable
                /\ r.drcr = Debit /\ r.currency = c

Before(a, b) ==
    \/ DateRank(a.date) < DateRank(b.date)
    \/ (a.date = b.date /\ a.id < b.id)

\* The stored Transactions of the type(s) that the last query asked for.
Matching == {t \in db.txn : args[2].k # "none" => t.type \in args[2].v}

\* The reference of the last query has both an id and a date.
Referenced ==
    args[1].given /\ args[1].id \notin {Undefined, 0} /\ args[1].date # ""

\* C18: with a reference that has an id and a date, prevId returns the id of
\* the last Transaction of the requested type(s) that is before the reference
\* in (date, id) order and nextId that of the first one after it, or 0 when
\* there is none; never the Transaction at the reference's (date, id).
C18_StepFromReference ==
    (op \in {"prevId", "nextId"} /\ Referenced) =>
        LET beyond == {t \in Matching :
                         IF op = "prevId" THEN Before(t, args[1])
                         ELSE Before(args[1], t)}
        IN  /\ ~\E t \in db.txn :
                    t.id = result /\ t.id = args[1].id /\ t.date = args[1].date
            /\ IF beyond = {} THEN result = 0
               ELSE \E t \in beyond :
                      /\ result = t.id
                      /\ \A x \in beyond \ {t} :
                            IF op = "prevId" THEN Before(x, t) ELSE Before(t, x)

\* Transactions 1, 2, 3 dated 2020-01-01, 2020-01-02, 2020-01-02; prevId from
\* (2, 2020-01-02) is 1.
C18_Witness ==
    /\ op = "prevId"
    /\ args[1] = [given |-> TRUE, id |-> 2, date |-> "2020-01-02"]
    /\ {<<t.id, t.date>> : t \in db.txn} =
          {<<1, "2020-01-01">>, <<2, "2020-01-02">>, <<3, "2020-01-02">>}
    /\ Matching = db.txn
    /\ result = 1

\* C19: without a reference (none given, or one without an id or a date),
\* prevId returns the id of the last Transaction of the requested type(s) in
\* (date, id) order and nextId that of the first; both return 0 when there is
\* no such Transaction.
C19_StepWithoutReference ==
    (op \in {"prevId", "nextId"} /\ ~Referenced) =>
        IF Matching = {} THEN result = 0
        ELSE \E t \in Matching :
               /\ result = t.id
               /\ \A x \in Matching \ {t} :
                     IF op = "prevId" THEN Before(x, t) ELSE Before(t, x)

\* prevId(undefined, [Sale, Invoice]) with three Transactions stored, the
\* first of them with the latest date.
C19_Witness ==
    /\ op = "prevId"
    /\ ~args[1].given
    /\ args[2] = [k |-> "array", v |-> {"sale", "invoice"}]
    /\ Cardinality(db.txn) = 3
    /\ result = 1

\* What the elements of the settlement in memory credit to the receivable
\* account for Transaction t, in a currency.
Settled(t, c) ==
    LET is == {i \in 1..Len(elements) :
                  /\ elements[i].settleId = t
                  /\ elements[i].accountId = Receivable
                  /\ elements[i].currency = c}
    IN SetSum([i \in is |-> -(elements[i].drcr * elements[i].amount)], is)

\* What invoice t debits to the receivable account, in a currency.
Invoiced(t, c) ==
    LET rows == {r \in db.txnElement :
                    /\ r.transactionId = t
                    /\ r.accountId = Receivable
                    /\ r.currency = c}
    IN SetSum([r \in rows |-> r.drcr * r.amount], rows)

\* C17: an invoice that no stored posting settles is unpaid; after each
\* commit of its settlement it is unpaid exactly when what the settlement now
\* credits to the receivable account for it differs, in some currency, from
\* what was invoiced: paid once the full amount is settled, unpaid again when
\* an amount is reduced or zeroed, paid again when it is restored.
C17_SettlementSymmetry ==
    /\ (~\E r \in db.txnElement : r.settleId = 1) =>
          1 \in unpaidInvoices(db, "invoice", Receivable)
    /\ (op = "settle" /\ result = "ok") =>
          (1 \in args[Len(args)] <=>
              \E c \in Currencies : Settled(1, c) # Invoiced(1, c))

\* Three commits after which the invoice was paid, unpaid, and paid again.
C17_Witness ==
    /\ op = "settle"
    /\ args = <<{}, {1}, {}>>

\* C21: the balances hold one entry for each currency among the elements and
\* no other, with the sum of drcr * amount of that currency's elements (of
\* amount alone for sums), in ascending order of currency; the elements in any
\* other order give the same balances.
C21_Balances ==
    op = "getBalances" =>
        LET n == Len(elements)
            of(c) == {i \in 1..n : elements[i].currency = c}
            total(c) ==
                SetSum([i \in 1..n |-> IF args[1] THEN elements[i].amount
                                       ELSE elements[i].drcr * elements[i].amount],
                       of(c))
        IN  /\ {result[k].currency : k \in 1..Len(result)} =
                  {elements[i].currency : i \in 1..n}
            /\ \A j, k \in 1..Len(result) : j < k =>
                  CurrencyRank(result[j].currency) < CurrencyRank(result[k].currency)
            /\ \A k \in 1..Len(result) :
                  result[k].amount = total(result[k].currency)
            /\ \A p \in Permutations(1..n) :
                  _getBalances([i \in 1..n |-> elements[p[i]]], args[1]) = result

\* Net balances of three elements in two currencies, the later currency met
\* first.
C21_Witness ==
    /\ op = "getBalances"
    /\ args = <<FALSE>>
    /\ Len(elements) = 3
    /\ elements[1].currency = "USD"
    /\ result = <<[amount |-> -1, currency |-> "EUR"],
                  [amount |-> 1, currency |-> "USD"]>>

\* What condenseElements is to remove: amount 0 and no parent, or amount 0
\* and no tax code.
Removable(e) == e.amount = 0 /\ (e.parentId = 0 \/ e.taxCode = "")

\* The sequences s and t hold the same elements, column for column, each as
\* many times.
SameElements(s, t) ==
    /\ Len(s) = Len(t)
    /\ \E p \in Permutations(1..Len(s)) :
          \A i \in 1..Len(s) : Columns(s[i]) = Columns(t[p[i]])

\* C22: condenseElements removes from the list in memory the elements with
\* amount 0 and (no parent or no tax code), and only those; the others stay as
\* they were and end in ascending order of id; storage, and the
\* Transaction's id and date, are not written.
C22_CondenseOnlyMemory ==
    [][op' = "condenseElements" =>
          /\ SameElements(elements',
                          SelectSeq(elements, LAMBDA e : ~Removable(e)))
          /\ \A i, j \in 1..Len(elements') :
                (i < j /\ elements'[i].id # Undefined
                       /\ elements'[j].id # Undefined) =>
                    elements'[i].id <= elements'[j].id
          /\ db' = db
          /\ id' = id
          /\ date' = date]_vars

\* A condense that follows a merge and a save, after a row of the Transaction
\* was deleted: two or more elements are left, all of them stored.
C22_Witness ==
    /\ op = "condenseElements"
    /\ stage = 3
    /\ Len(elements) >= 2
    /\ Cardinality(db.txnElement) < db.elementSeq - 1
    /\ \A i \in 1..Len(elements) :
          \E r \in db.txnElement : r.id = elements[i].id

\* C23: in an accepted merge an item with parentId -1 is attached to the
\* last item before it in the list that is not a pending child; every other
\* item, one that carried the id of a parent included, ends with parentId 0
\* and without a parent attached, and is what the pending children after it
\* are attached to.
C23_ChildrenAttached ==
    [][(op' = "mergeElements" /\ result' = "ok") =>
        LET l == list'
            n == Len(elements)
            pos(i) ==
                IF l[i].id = Undefined
                THEN n + Cardinality({k \in 1..i : l[k].id = Undefined})
                ELSE CHOOSE j \in 1..n :
                        /\ elements[j].id = l[i].id
                        /\ \A k \in 1..(j - 1) : elements[k].id # l[i].id
            stays(i) ==
                l[i].id = Undefined \/ \A k \in (i + 1)..Len(l) : l[k].id # l[i].id
            root(i) ==
                CHOOSE r \in 1..(i - 1) :
                    /\ l[r].parentId # PendingChild
                    /\ \A k \in (r + 1)..(i - 1) : l[k].parentId = PendingChild
        IN  \A i \in 1..Len(l) : stays(i) =>
                IF l[i].parentId = PendingChild
                THEN elements'[pos(i)]._parent =
                        IF stays(root(i)) THEN ElRef(pos(root(i)))
                        ELSE ObjRef(l[root(i)].id)
                ELSE /\ elements'[pos(i)].parentId = 0
                     /\ elements'[pos(i)]._parent = NoParent
      ]_vars

\* A root, an item that carried the id of a parent, and a pending child,
\* which is attached to the second.
C23_Witness ==
    /\ op = "mergeElements" /\ result = "ok"
    /\ Len(list) = 3
    /\ list[1].parentId = 0
    /\ list[2].parentId = 1 /\ list[2].id = Undefined
    /\ list[3].parentId = PendingChild /\ list[3].id = Undefined
    /\ elements[Len(elements)]._parent = ElRef(Len(elements) - 1)

\* _save writes the element: it has an amount or a tax code.
Written(e) == e.amount # 0 \/ e.taxCode # ""

\* C24: after a successful save, every element that a merge attached to a
\* parent still in the list, that has an amount or a tax code and whose
\* parent was saved, has its row, with the id of the parent's row as parentId
\* and the Transaction's id as transactionId; so has a child of amount 0 with
\* a tax code.
C24_ChildrenStored ==
    [][(op' = "save" /\ result' = "ok") =>
        \A i \in 1..Len(elements) :
            (/\ elements[i]._parent.k = "el"
             /\ Written(elements[i])
             /\ Written(elements[elements[i]._parent.v])) =>
                LET p == elements[i]._parent.v
                IN  /\ \E r \in db'.txnElement :
                          r.id = elements'[p].id /\ r.transactionId = id'
                    /\ \E r \in db'.txnElement :
                          /\ r.id = elements'[i].id
                          /\ r.parentId = elements'[p].id
                          /\ r.transactionId = id'
                          /\ r.amount = elements[i].amount
                          /\ r.taxCode = elements[i].taxCode
      ]_vars

\* C25: no stored element has the parentId -1 that marks a pending child.
C25_MarkerNotStored ==
    \A r \in db.txnElement : r.parentId # PendingChild

\* A successful save that wrote a child, stored with the id of its parent.
C25_Witness ==
    /\ op = "save" /\ result = "ok"
    /\ \E k \in 1..Len(log) :
          /\ log[k].op = "save" /\ log[k].child
          /\ \E r \in db.txnElement : r.id = log[k].id /\ r.parentId > 0
          /\ \E i \in 1..Len(elements) :
                elements[i].id = log[k].id /\ elements[i].parentId > 0

\* C26: after a successful save no stored element of the Transaction has
\* amount 0 and no tax code: the save deletes the row with the id of such an
\* element, and such an element without id is not inserted.
C26_ZeroNotStored ==
    [][(op' = "save" /\ result' = "ok") =>
        /\ \A r \in db'.txnElement :
              r.transactionId = id' => (r.amount # 0 \/ r.taxCode # "")
        /\ \A i \in 1..Len(elements) :
              (elements[i].amount = 0 /\ elements[i].taxCode = "") =>
                  IF Truthy(elements[i].id)
                  THEN \E k \in 1..Len(log') :
                          log'[k].op = "delete" /\ log'[k].id = elements[i].id
                  ELSE /\ ~Truthy(elements'[i].id)
                       /\ \A k \in 1..Len(log') : log'[k].op = "save" =>
                             (log'[k].amount # 0 \/ log'[k].taxCode # "")
      ]_vars

\* A successful save that deleted the row of an element zeroed in memory.
C26_Witness ==
    /\ op = "save" /\ result = "ok"
    /\ \E k \in 1..Len(log) :
          /\ log[k].op = "delete"
          /\ log[k].amount = 0 /\ log[k].taxCode = ""
          /\ ~log[k].child
          /\ ~\E r \in db.txnElement : r.id = log[k].id

\* C27: a save that succeeds after a save that a refused storage call ended,
\* with no merge in between, leaves the rows of storage as the first save
\* would have left them had it succeeded.
C27_RetryAsFirst ==
    op = "retry" =>
        /\ db.txn = args[1].txn
        /\ db.txnElement = args[1].txnElement

\* C28: a mergeElements with the list of the accepted mergeElements just
\* before it, nothing saved in between, leaves the elements as the first of
\* the two left them.
C28_MergeTwice ==
    [][(/\ op = "mergeElements" /\ result = "ok"
        /\ op' = "mergeElements" /\ list' = list) =>
            /\ result' = "ok"
            /\ Len(elements') = Len(elements)
            /\ \A i \in 1..Len(elements) : Row(elements'[i]) = Row(elements[i])
      ]_vars

\* C29: when a row that carries a tId is submitted and a payment is merged
\* and saved, that payment is the Transaction whose id is the row's tId.
C29_PaymentOfRow ==
    (/\ op = "saveFormData" /\ result = "ok"
     /\ Truthy(args.item.tId)) => id = args.item.tId

\* The debit elements of a currency, and the total of its credit elements.
DebitsOf(els, c) == {i \in 1..Len(els) : els[i].drcr = Debit /\ els[i].currency = c}

CreditTotal(els, c) ==
    LET f == [i \in 1..Len(els) |-> els[i].amount]
    IN  SetSum(f, {i \in 1..Len(els) : els[i].drcr = Credit /\ els[i].currency = c})

\* C30: when the rows of the Sale form carry the id of every credit element
\* of the Transaction, saveFormData is not rejected as not balanced, and
\* after it every currency of the Transaction has exactly one debit element,
\* whose amount is the total of the credit elements of the currency.
C30_SaleBalanced ==
    (/\ op = "saveFormData"
     /\ args.credits \subseteq RowIds(args.rows)) =>
        /\ result # "Not balanced"
        /\ result = "ok" =>
            \A c \in {elements[i].currency : i \in 1..Len(elements)} :
                /\ Cardinality(DebitsOf(elements, c)) = 1
                /\ \A i \in DebitsOf(elements, c) :
                        elements[i].amount = CreditTotal(elements, c)

\* A form that carries the ids of the credit elements of the stored sale is
\* saved: a debit element is reused for the total, another is zeroed.
C30_Witness ==
    /\ op = "saveFormData"
    /\ result = "ok"
    /\ args.credits # {}
    /\ args.credits \subseteq RowIds(args.rows)
    /\ \E i \in 1..Len(list) : list[i].currency = "" /\ Truthy(list[i].id)
    /\ \E i \in 1..Len(elements) :
            elements[i].drcr = Debit /\ elements[i].amount > MaxAmount
====
